---------------------------- MODULE Spec2Model ----------------------------
(***************************************************************************)
(* A model of pandas/io/external/root.py: the brace expander               *)
(* (expand_braces), the column selector (get_matching_variables), the      *)
(* loader (read_root with its chunk generator genchunks and                *)
(* convert_to_dataframe) and the writer (to_root).                         *)
(*                                                                         *)
(* A Python string is a sequence of one-character strings, so that the     *)
(* regular expression, str.find, str.strip, str.split, str.replace and     *)
(* fnmatch are computed character by character as the library does.        *)
(***************************************************************************)
EXTENDS Integers, Sequences, FiniteSets, TLC

VARIABLES
    segs,       \* expand_braces: the input as literal and group segments
    orig,       \* expand_braces: the input string
    expanded,   \* expand_braces: the returned strings (list(set(res)))
    sel_in,     \* get_matching_variables: [branches, patterns, fail]
    sel_out,    \* get_matching_variables: [raised, pattern, selected]
    file,       \* read_root: the source [trees, branches, n_entries]
    call,       \* read_root: the arguments and the outcome of the last call
    gens,       \* read_root: the generator objects returned so far
    reads,      \* read_root: the root2array calls issued so far
    dest,       \* to_root: the trees of the destination file
    writes,     \* to_root: the array2root calls issued so far
    wcall       \* to_root: the arguments and the outcome of the last call

vars == <<segs, orig, expanded, sel_in, sel_out, file, call, gens, reads,
          dest, writes, wcall>>

-----------------------------------------------------------------------------
(* Python string primitives *)

LBRACE == "{"
RBRACE == "}"
COMMA == ","
BACKSLASH == "\\"

RECURSIVE Concat(_)
\* ''.join(parts)
Concat(parts) ==
    IF parts = <<>> THEN <<>> ELSE Head(parts) \o Concat(Tail(parts))

\* s[from:] with a 1-based first position
Drop(s, from) == SubSeq(s, from, Len(s))

\* whether t occurs in s at position k
OccursAt(s, t, k) == k + Len(t) - 1 <= Len(s) /\ SubSeq(s, k, k + Len(t) - 1) = t

\* s.find(t) for a t that occurs in s: the position of its first occurrence
Find(s, t) ==
    LET hits == {k \in 1..(Len(s) + 1) : OccursAt(s, t, k)}
    IN  CHOOSE k \in hits : \A h \in hits : k <= h

RECURSIVE LStrip(_)
\* the left half of s.strip('{}')
LStrip(s) ==
    IF s # <<>> /\ Head(s) \in {LBRACE, RBRACE} THEN LStrip(Tail(s)) ELSE s

RECURSIVE RStrip(_)
\* the right half of s.strip('{}')
RStrip(s) ==
    IF s # <<>> /\ s[Len(s)] \in {LBRACE, RBRACE}
    THEN RStrip(SubSeq(s, 1, Len(s) - 1))
    ELSE s

\* s.strip('{}')
StripBraces(s) == RStrip(LStrip(s))

RECURSIVE SplitFrom(_, _)
\* s.split(','), with cur the piece collected so far
SplitFrom(s, cur) ==
    IF s = <<>> THEN <<cur>>
    ELSE IF Head(s) = COMMA THEN <<cur>> \o SplitFrom(Tail(s), <<>>)
    ELSE SplitFrom(Tail(s), Append(cur, Head(s)))

SplitComma(s) == SplitFrom(s, <<>>)

RECURSIVE EscapeClose(_)
\* s.replace('}', '\\}')
EscapeClose(s) ==
    IF s = <<>> THEN <<>>
    ELSE IF Head(s) = RBRACE THEN <<BACKSLASH, RBRACE>> \o EscapeClose(Tail(s))
    ELSE <<Head(s)>> \o EscapeClose(Tail(s))

RECURSIVE UnescapeClose(_)
\* s.replace('\\}', '}'): left to right, occurrences do not overlap
UnescapeClose(s) ==
    IF s = <<>> THEN <<>>
    ELSE IF Len(s) >= 2 /\ s[1] = BACKSLASH /\ s[2] = RBRACE
         THEN <<RBRACE>> \o UnescapeClose(Drop(s, 3))
    ELSE <<Head(s)>> \o UnescapeClose(Tail(s))

-----------------------------------------------------------------------------
(* expand_braces *)

\* The matches of \{.+?[^\\]\} in s as (open, close) positions: an opening
\* brace, at least one character, one character that is no backslash, and
\* a closing brace.
GroupMatches(s) ==
    {m \in (1..Len(s)) \X (1..Len(s)) :
        /\ s[m[1]] = LBRACE
        /\ m[2] >= m[1] + 3
        /\ s[m[2]] = RBRACE
        /\ s[m[2] - 1] # BACKSLASH}

\* group(1) of p.search(s): the greedy .* takes the last opening brace that
\* starts a match, the lazy .+? its first admissible closing brace.
SearchGroup(s) ==
    LET ms == GroupMatches(s)
        o == CHOOSE i \in {m[1] : m \in ms} : \A m \in ms : m[1] <= i
        c == CHOOSE j \in {m[2] : m \in {x \in ms : x[1] = o}} :
                \A m \in {x \in ms : x[1] = o} : j <= m[2]
    IN  SubSeq(s, o, c)

RECURSIVE expand_braces(_)
\* the set of the strings returned (the list's order is that of a set)
expand_braces(s) ==
    IF GroupMatches(s) # {}
    THEN LET sub == SearchGroup(s)
             open_brace == Find(s, sub)
             close_brace == open_brace + Len(sub) - 1
             before == SubSeq(s, 1, open_brace - 1)
             after == Drop(s, close_brace + 1)
         IN  IF \E k \in 1..Len(sub) : sub[k] = COMMA
             THEN LET pats == SplitComma(StripBraces(sub))
                  IN  UNION {expand_braces(before \o pats[k] \o after) :
                                k \in 1..Len(pats)}
             ELSE expand_braces(before \o EscapeClose(sub) \o after)
    ELSE {UnescapeClose(s)}

-----------------------------------------------------------------------------
(* The inputs of expand_braces: k sequential brace groups and literal text *)

MaxSegs == 3
MaxAlts == 2

\* the characters of literals and alternatives: no brace, comma or backslash
LiteralChars == {"A", "x"}
Alternatives == {<<>>, <<"A">>, <<"B">>}

\* a literal character, or a group of at least two alternatives
Segments ==
    {[group |-> FALSE, alts |-> <<(<<c>>)>>] : c \in LiteralChars}
    \cup {[group |-> TRUE, alts |-> a] :
            a \in UNION {[1..n -> Alternatives] : n \in 2..MaxAlts}}

SegLists == UNION {[1..k -> Segments] : k \in 0..MaxSegs}

RECURSIVE JoinComma(_)
\* ','.join(alts)
JoinComma(alts) ==
    IF Len(alts) = 1 THEN alts[1]
    ELSE alts[1] \o <<COMMA>> \o JoinComma(Tail(alts))

\* the text of one segment
SegText(g) ==
    IF g.group THEN <<LBRACE>> \o JoinComma(g.alts) \o <<RBRACE>> ELSE g.alts[1]

\* the input string that a list of segments spells
Flatten(ts) == Concat([k \in 1..Len(ts) |-> SegText(ts[k])])

RECURSIVE Product(_)
\* one alternative chosen per group: the Cartesian product
Product(ts) ==
    IF ts = <<>> THEN {<<>>}
    ELSE {Head(ts).alts[k] \o rest :
            k \in 1..Len(Head(ts).alts), rest \in Product(Tail(ts))}

-----------------------------------------------------------------------------
(* fnmatch.fnmatch(name, pat) on a POSIX system (imported at line 7) *)

\* the position of the ']' that closes the class opened before position i
\* (fnmatch.translate's scan), or 0 when there is none
ClassEnd(pat, i) ==
    LET j1 == IF i <= Len(pat) /\ pat[i] = "!" THEN i + 1 ELSE i
        j2 == IF j1 <= Len(pat) /\ pat[j1] = "]" THEN j1 + 1 ELSE j1
        ends == {j \in j2..Len(pat) : pat[j] = "]"}
    IN  IF ends = {} THEN 0 ELSE CHOOSE j \in ends : \A e \in ends : j <= e

\* whether character c is in the class pat[i..j-1]
InClass(pat, i, j, c) ==
    IF pat[i] = "!"
    THEN ~ \E k \in (i + 1)..(j - 1) : pat[k] = c
    ELSE \E k \in i..(j - 1) : pat[k] = c

RECURSIVE fnmatch(_, _)
fnmatch(name, pat) ==
    IF pat = <<>> THEN name = <<>>
    ELSE IF Head(pat) = "*"
         THEN fnmatch(name, Tail(pat))
              \/ (name # <<>> /\ fnmatch(Tail(name), pat))
    ELSE IF Head(pat) = "?"
         THEN name # <<>> /\ fnmatch(Tail(name), Tail(pat))
    ELSE IF Head(pat) = "[" /\ ClassEnd(pat, 2) # 0
         THEN /\ name # <<>>
              /\ InClass(pat, 2, ClassEnd(pat, 2), Head(name))
              /\ fnmatch(Tail(name), Drop(pat, ClassEnd(pat, 2) + 1))
    ELSE name # <<>> /\ Head(name) = Head(pat)
         /\ fnmatch(Tail(name), Tail(pat))

-----------------------------------------------------------------------------
(* get_matching_variables *)

\* BranchLoop without the test `not b in selected`
RECURSIVE BranchLoop_NoDedup(_, _, _, _)
BranchLoop_NoDedup(branches, i, p, selected) ==
    IF i > Len(branches) THEN selected
    ELSE BranchLoop_NoDedup(branches, i + 1, p,
            IF fnmatch(branches[i], p) THEN Append(selected, branches[i])
            ELSE selected)

\* `selected` after the inner loop over branches[i..] for pattern p
RECURSIVE BranchLoop(_, _, _, _)
BranchLoop(branches, i, p, selected) ==
    IF i > Len(branches) THEN selected
    ELSE LET b == branches[i]
             hit == fnmatch(b, p)
                    /\ ~ \E k \in 1..Len(selected) : selected[k] = b
         IN  BranchLoop(branches, i + 1, p,
                        IF hit THEN Append(selected, b) ELSE selected)

\* `found` after the inner loop for pattern p
Found(branches, p) == \E i \in 1..Len(branches) : fnmatch(branches[i], p)

\* PatternLoop with `found` set only when a branch is appended
RECURSIVE PatternLoop_FoundWhenAdded(_, _, _, _, _)
PatternLoop_FoundWhenAdded(branches, patterns, i, fail, selected) ==
    IF i > Len(patterns)
    THEN [raised |-> FALSE, pattern |-> <<>>, selected |-> selected]
    ELSE LET sel == BranchLoop(branches, 1, patterns[i], selected)
         IN  IF sel = selected /\ fail
             THEN [raised |-> TRUE, pattern |-> patterns[i], selected |-> <<>>]
             ELSE PatternLoop_FoundWhenAdded(branches, patterns, i + 1, fail, sel)

\* the outer loop over patterns[i..]: the selection returned, or the
\* ValueError raised for the pattern that matched no branch
RECURSIVE PatternLoop(_, _, _, _, _)
PatternLoop(branches, patterns, i, fail, selected) ==
    IF i > Len(patterns)
    THEN [raised |-> FALSE, pattern |-> <<>>, selected |-> selected]
    ELSE LET p == patterns[i]
             sel == BranchLoop(branches, 1, p, selected)
         IN  IF ~ Found(branches, p) /\ fail
             THEN [raised |-> TRUE, pattern |-> p, selected |-> <<>>]
             ELSE PatternLoop(branches, patterns, i + 1, fail, sel)

get_matching_variables(branches, patterns, fail) ==
    PatternLoop(branches, patterns, 1, fail, <<>>)

-----------------------------------------------------------------------------
(* read_root: the source file and the arguments *)

MaxRows == 3
MaxChunk == 2
MaxGens == 2

AB == <<"A", "B">>
AC == <<"A", "C">>
B == <<"B">>
INDEX == <<"i", "n", "d", "e", "x">>

\* the elements of a list
Range(l) == {l[k] : k \in 1..Len(l)}

\* list_branches(path, tree_key) of the sources read
BranchLists == {<<AB, AC, B, INDEX>>, <<AB, AC, B>>, <<INDEX, AB>>}

\* list_trees(path) of the sources read
TreeLists == {<<"t">>, <<"t", "u">>}

Files ==
    [trees : TreeLists, branches : BranchLists, n_entries : 0..MaxRows]

\* an argument that is None, one pattern (a string) or a list of patterns
NoArg == [kind |-> "none", val |-> <<>>]
StrArg(p) == [kind |-> "str", val |-> p]
ListArg(ps) == [kind |-> "list", val |-> ps]

\* `if arg:` : None, '' and [] are false
Truthy(arg) == arg.val # <<>>

\* `if isinstance(arg, basestring): arg = [arg]`
AsList(arg) == IF arg.kind = "str" THEN <<arg.val>> ELSE arg.val

ColumnArgs ==
    {NoArg, ListArg(<<>>),
     StrArg(<<"A", "*">>),
     ListArg(<<(<<"A", "*">>)>>),
     ListArg(<<(<<"*">>)>>),
     ListArg(<<B, <<"A", "*">> >>),
     ListArg(<<(<<"A", "{", "B", ",", "C", "}">>)>>),
     ListArg(<<(<<"A", "?">>), AB>>),
     ListArg(<<(<<"[", "A", "B", "]", "*">>)>>),
     ListArg(<<(<<"Z">>)>>)}

IgnoreArgs ==
    {NoArg,
     StrArg(AB),
     ListArg(<<B>>),
     ListArg(<<AC, AB>>),
     ListArg(<<(<<"A", "*">>)>>),
     ListArg(<<(<<"A", "{", "B", ",", "C", "}">>)>>),
     ListArg(<<(<<"Z">>)>>),
     StrArg(INDEX),
     ListArg(<<(<<"i", "n", "d", "*">>)>>),
     ListArg(<<B, <<"*">> >>)}

TreeKeyArgs == {"", "t"}

-----------------------------------------------------------------------------
(* read_root: column resolution *)

\* the orders in which list(set(res)) may list the strings of a set
Orderings(S) ==
    {f \in [1..Cardinality(S) -> S] :
        \A i, j \in 1..Cardinality(S) : i # j => f[i] # f[j]}

RECURSIVE ExpandChain(_)
\* list(itertools.chain.from_iterable(map(expand_braces, l))): every list
\* it may be, each expansion in any order
ExpandChain(l) ==
    IF l = <<>> THEN {<<>>}
    ELSE {h \o t : h \in Orderings(expand_braces(Head(l))),
                   t \in ExpandChain(Tail(l))}

\* lines 89-94: the tree key, or the error for a source without exactly one
ResolveTree(f, tree_key) ==
    IF tree_key # "" THEN [err |-> "", tree |-> tree_key]
    ELSE IF Len(f.trees) = 1 THEN [err |-> "", tree |-> f.trees[1]]
    ELSE [err |-> "AmbiguousTree", tree |-> ""]

\* IncludeStage without the forced 'index' pattern
IncludeStage_NoIndex(branches, columns) ==
    IF ~ Truthy(columns)
    THEN {[err |-> "", all_vars |-> branches]}
    ELSE {LET r == get_matching_variables(branches, c, TRUE)
          IN  [err |-> IF r.raised THEN "PatternNotFound" ELSE "",
               all_vars |-> r.selected] : c \in ExpandChain(AsList(columns))}

\* lines 98-108: the include selections the call may compute
IncludeStage(branches, columns) ==
    IF ~ Truthy(columns)
    THEN {[err |-> "", all_vars |-> branches]}
    ELSE LET cols == AsList(columns)
             withIndex == IF INDEX \in Range(branches)
                          THEN Append(cols, INDEX) ELSE cols
         IN  {LET r == get_matching_variables(branches, c, TRUE)
              IN  [err |-> IF r.raised THEN "PatternNotFound" ELSE "",
                   all_vars |-> r.selected] : c \in ExpandChain(withIndex)}

\* l.remove(x) for an x in l: its first occurrence is dropped
RemoveFirst(l, x) ==
    LET k == CHOOSE i \in 1..Len(l) : l[i] = x /\ \A j \in 1..(i - 1) : l[j] # x
    IN  SubSeq(l, 1, k - 1) \o Drop(l, k + 1)

RECURSIVE RemoveLoop(_, _, _)
\* lines 117-118: list.remove raises ValueError for a var not in all_vars
RemoveLoop(all_vars, ignored, i) ==
    IF i > Len(ignored) THEN [err |-> "", ignored |-> ignored, all_vars |-> all_vars]
    ELSE IF ignored[i] \notin Range(all_vars)
         THEN [err |-> "RemoveMissing", ignored |-> ignored, all_vars |-> all_vars]
    ELSE RemoveLoop(RemoveFirst(all_vars, ignored[i]), ignored, i + 1)

\* IgnoreStage without the test `'index' in ignored`
IgnoreStage_NoIndexCheck(branches, ignore, all_vars) ==
    IF ~ Truthy(ignore)
    THEN {[err |-> "", ignored |-> <<>>, all_vars |-> all_vars]}
    ELSE {RemoveLoop(all_vars, ig, 1) :
            ig \in ExpandChain(
                get_matching_variables(branches, AsList(ignore), FALSE).selected)}

\* lines 110-118: the outcomes of the ignore stage
IgnoreStage(branches, ignore, all_vars) ==
    IF ~ Truthy(ignore)
    THEN {[err |-> "", ignored |-> <<>>, all_vars |-> all_vars]}
    ELSE LET matched ==
                 get_matching_variables(branches, AsList(ignore), FALSE).selected
         IN  {IF INDEX \in Range(ig)
              THEN [err |-> "ReservedColumn", ignored |-> ig, all_vars |-> all_vars]
              ELSE RemoveLoop(all_vars, ig, 1) : ig \in ExpandChain(matched)}

\* lines 89-118: the outcomes of the resolution of one call
Resolve(f, tree_key, columns, ignore) ==
    LET t == ResolveTree(f, tree_key)
    IN  IF t.err # ""
        THEN {[err |-> t.err, tree |-> "", included |-> <<>>,
               ignored |-> <<>>, all_vars |-> <<>>]}
        ELSE UNION {
               IF inc.err # ""
               THEN {[err |-> inc.err, tree |-> t.tree, included |-> <<>>,
                      ignored |-> <<>>, all_vars |-> <<>>]}
               ELSE {[err |-> ig.err, tree |-> t.tree,
                      included |-> inc.all_vars, ignored |-> ig.ignored,
                      all_vars |-> ig.all_vars] :
                        ig \in IgnoreStage(f.branches, ignore, inc.all_vars)}
               : inc \in IncludeStage(f.branches, columns)}

-----------------------------------------------------------------------------
(* read_root: the reads *)

\* the row numbers from..(to - 1)
RowSeq(from, to) == [k \in 1..(IF to > from THEN to - from ELSE 0) |-> from + k - 1]

Min(a, b) == IF a < b THEN a ELSE b

\* root_numpy.root2array(path, tree, branches, start=, stop=): the rows
\* start..stop-1 that the tree holds; all of them without start and stop
root2array(f, branches, ranged, start, stop) ==
    [names |-> branches,
     rows |-> IF ranged THEN RowSeq(start, Min(stop, f.n_entries))
              ELSE RowSeq(0, f.n_entries)]

\* lines 133-142: a field named index becomes the index of the table
convert_to_dataframe(array) ==
    [index |-> IF INDEX \in Range(array.names) THEN "index" ELSE "default",
     columns |-> SelectSeq(array.names, LAMBDA n : n # INDEX),
     rows |-> array.rows]

\* NChunks with the quotient rounded down
NChunks_Floor(n_entries, chunksize) == n_entries \div chunksize

\* int(ceil(float(n_entries) / chunksize)), exact for the row counts modelled
NChunks(n_entries, chunksize) == (n_entries + chunksize - 1) \div chunksize

NoFrame == [index |-> "", columns |-> <<>>, rows |-> <<>>]

NoCall ==
    [seq |-> 0, tree_key |-> "", columns |-> NoArg, ignore |-> NoArg,
     chunksize |-> 0, err |-> "", tree |-> "", included |-> <<>>,
     ignored |-> <<>>, all_vars |-> <<>>, returned |-> "", frame |-> NoFrame]

\* One call of read_root, the limit-th at most: it raises, or returns the
\* generator genchunks() without reading a row, or reads every row and
\* returns the table.
read_root(tree_key, columns, ignore, chunksize, limit) ==
    /\ call.seq < limit
    /\ \E r \in Resolve(file, tree_key, columns, ignore) :
         LET c == [seq |-> call.seq + 1, tree_key |-> tree_key,
                   columns |-> columns, ignore |-> ignore,
                   chunksize |-> chunksize, err |-> r.err, tree |-> r.tree,
                   included |-> r.included, ignored |-> r.ignored,
                   all_vars |-> r.all_vars, returned |-> "", frame |-> NoFrame]
         IN  IF r.err # ""
             THEN /\ call' = [c EXCEPT !.returned = "raise"]
                  /\ UNCHANGED <<gens, reads>>
             ELSE IF chunksize # 0
             THEN /\ call' = [c EXCEPT !.returned = "generator"]
                  /\ gens' = Append(gens,
                        [tree |-> r.tree, all_vars |-> r.all_vars,
                         chunksize |-> chunksize, n_entries |-> file.n_entries,
                         chunk |-> 0, done |-> FALSE, pulls |-> 0,
                         yielded |-> <<>>])
                  /\ UNCHANGED reads
             ELSE LET arr == root2array(file, r.all_vars, FALSE, 0, 0)
                  IN  /\ call' = [c EXCEPT !.returned = "frame",
                                           !.frame = convert_to_dataframe(arr)]
                      /\ reads' = Append(reads,
                            [gen |-> 0, branches |-> r.all_vars,
                             ranged |-> FALSE, start |-> 0, stop |-> 0])
                      /\ UNCHANGED gens
    /\ UNCHANGED <<segs, orig, expanded, sel_in, sel_out, file, dest, writes, wcall>>

\* genchunks with the row range of the following chunk
genchunks_OffByOne(g) ==
    /\ g \in 1..Len(gens)
    /\ ~ gens[g].done
    /\ LET G == gens[g]
       IN  IF G.chunk < NChunks(G.n_entries, G.chunksize)
           THEN LET start == (G.chunk + 1) * G.chunksize
                    stop == (G.chunk + 2) * G.chunksize
                    arr == root2array(file, G.all_vars, TRUE, start, stop)
                IN  /\ reads' = Append(reads,
                          [gen |-> g, branches |-> G.all_vars,
                           ranged |-> TRUE, start |-> start, stop |-> stop])
                    /\ gens' = [gens EXCEPT
                          ![g].chunk = G.chunk + 1,
                          ![g].pulls = G.pulls + 1,
                          ![g].yielded = Append(G.yielded, convert_to_dataframe(arr))]
           ELSE /\ gens' = [gens EXCEPT ![g].done = TRUE,
                                        ![g].pulls = G.pulls + 1]
                /\ UNCHANGED reads
    /\ UNCHANGED <<segs, orig, expanded, sel_in, sel_out, file, call, dest, writes, wcall>>

\* next() on the g-th generator (pulls counts the consumer's requests): the
\* body of genchunks runs to its next yield, reading one chunk, or ends
\* when range() is exhausted
genchunks(g) ==
    /\ g \in 1..Len(gens)
    /\ ~ gens[g].done
    /\ LET G == gens[g]
       IN  IF G.chunk < NChunks(G.n_entries, G.chunksize)
           THEN LET start == G.chunk * G.chunksize
                    stop == (G.chunk + 1) * G.chunksize
                    arr == root2array(file, G.all_vars, TRUE, start, stop)
                IN  /\ reads' = Append(reads,
                          [gen |-> g, branches |-> G.all_vars,
                           ranged |-> TRUE, start |-> start, stop |-> stop])
                    /\ gens' = [gens EXCEPT
                          ![g].chunk = G.chunk + 1,
                          ![g].pulls = G.pulls + 1,
                          ![g].yielded = Append(G.yielded, convert_to_dataframe(arr))]
           ELSE /\ gens' = [gens EXCEPT ![g].done = TRUE,
                                        ![g].pulls = G.pulls + 1]
                /\ UNCHANGED reads
    /\ UNCHANGED <<segs, orig, expanded, sel_in, sel_out, file, call, dest, writes, wcall>>

-----------------------------------------------------------------------------
(* to_root *)

MaxWrites == 3

Modes == {"w", "a", "r", "", "update"}
WriteKeys == {"default", "t"}

\* the tables written: their index and their columns
Frames ==
    {[index |-> "default", columns |-> <<AB>>, rows |-> RowSeq(0, 1)],
     [index |-> "default", columns |-> <<AB, B>>, rows |-> RowSeq(0, 2)]}

\* df.to_records(): the index is the first field, named index
to_records(df) == [names |-> <<INDEX>> \o df.columns, rows |-> df.rows]

\* OpenMode with every mode but 'a' opening the file afresh
OpenMode_ElseRecreate(mode) == IF mode = "a" THEN "update" ELSE "recreate"

\* lines 170-175: the open mode of the writer, or "" for the ValueError
OpenMode(mode) ==
    IF mode = "a" THEN "update"
    ELSE IF mode = "w" THEN "recreate"
    ELSE ""

\* root_numpy.array2root(arr, path, tree_key, mode): recreate starts a new
\* file holding the one tree, update adds the rows to the tree of the file
array2root(d, arr, tree_key, mode) ==
    IF mode = "recreate"
    THEN [k \in WriteKeys |-> IF k = tree_key THEN <<arr>> ELSE <<>>]
    ELSE [d EXCEPT ![tree_key] = Append(d[tree_key], arr)]

NoWrite == [seq |-> 0, mode |-> "", tree_key |-> "", err |-> ""]

to_root(df, tree_key, mode) ==
    /\ wcall.seq < MaxWrites
    /\ IF OpenMode(mode) = ""
       THEN /\ wcall' = [seq |-> wcall.seq + 1, mode |-> mode,
                         tree_key |-> tree_key, err |-> "InvalidMode"]
            /\ UNCHANGED <<dest, writes>>
       ELSE /\ wcall' = [seq |-> wcall.seq + 1, mode |-> mode,
                         tree_key |-> tree_key, err |-> ""]
            /\ writes' = Append(writes,
                  [arr |-> to_records(df), tree_key |-> tree_key,
                   mode |-> OpenMode(mode)])
            /\ dest' = array2root(dest, to_records(df), tree_key, OpenMode(mode))
    /\ UNCHANGED <<segs, orig, expanded, sel_in, sel_out, file, call, gens, reads>>

-----------------------------------------------------------------------------
(* The calls of the two helpers *)

MaxBranches == 3
MaxPatterns == 2

SelNames == {AB, AC, B}
SelPatterns == {<<"A", "*">>, AB, <<"?">>, <<"*", "C">>, <<"Z">>}

SelBranchLists == UNION {[1..k -> SelNames] : k \in 0..MaxBranches}
SelPatternLists == UNION {[1..k -> SelPatterns] : k \in 0..MaxPatterns}

NoSelIn == [branches |-> <<>>, patterns |-> <<>>, fail |-> TRUE]
NoSelOut == [called |-> FALSE, raised |-> FALSE, pattern |-> <<>>, selected |-> <<>>]

\* the call expand_braces(orig)
ExpandBraces ==
    /\ expanded = {}
    /\ expanded' = expand_braces(orig)
    /\ UNCHANGED <<segs, orig, sel_in, sel_out, file, call, gens, reads,
                   dest, writes, wcall>>

\* the call get_matching_variables(branches, patterns, fail)
GetMatchingVariables ==
    /\ ~ sel_out.called
    /\ LET r == get_matching_variables(sel_in.branches, sel_in.patterns,
                                       sel_in.fail)
       IN  sel_out' = [called |-> TRUE, raised |-> r.raised,
                       pattern |-> r.pattern, selected |-> r.selected]
    /\ UNCHANGED <<segs, orig, expanded, sel_in, file, call, gens, reads,
                   dest, writes, wcall>>

-----------------------------------------------------------------------------
(* Specifications *)

NoFile == [trees |-> <<"t">>, branches |-> <<>>, n_entries |-> 0]
NoDest == [k \in WriteKeys |-> <<>>]

ExpandIdle == segs = <<>> /\ orig = <<>> /\ expanded = {}

SelectIdle == sel_in = NoSelIn /\ sel_out = NoSelOut

HelpersIdle == ExpandIdle /\ SelectIdle

WriterIdle == dest = NoDest /\ writes = <<>> /\ wcall = NoWrite

ReaderIdle == file = NoFile /\ call = NoCall /\ gens = <<>> /\ reads = <<>>

\* expand_braces on every input of SegLists
InitExpand ==
    /\ segs \in SegLists /\ orig = Flatten(segs) /\ expanded = {}
    /\ SelectIdle /\ WriterIdle /\ ReaderIdle
SpecExpand == InitExpand /\ [][ExpandBraces]_vars

\* get_matching_variables on every input
InitSelect ==
    /\ sel_in \in [branches : SelBranchLists, patterns : SelPatternLists,
                   fail : BOOLEAN]
    /\ sel_out = NoSelOut
    /\ ExpandIdle /\ WriterIdle /\ ReaderIdle
SpecSelect == InitSelect /\ [][GetMatchingVariables]_vars

\* one call of read_root on a source, and the consumption of its result
Init ==
    /\ HelpersIdle /\ WriterIdle
    /\ file \in Files /\ call = NoCall /\ gens = <<>> /\ reads = <<>>
ReadRoot ==
    \E tree_key \in TreeKeyArgs, columns \in ColumnArgs, ignore \in IgnoreArgs,
       chunksize \in 0..MaxChunk :
        read_root(tree_key, columns, ignore, chunksize, 1)
GenNext == \E g \in 1..Len(gens) : genchunks(g)
Next == ReadRoot \/ GenNext
Spec == Init /\ [][Next]_vars

\* several chunked calls on one source, their generators consumed in any
\* interleaving, each as far as the consumer likes
MaxGenRows == 2
GenFiles ==
    [trees : {<<"t">>}, branches : {<<AB, AC, B, INDEX>>},
     n_entries : 0..MaxGenRows]
GenColumnArgs == {NoArg}
InitGen ==
    /\ HelpersIdle /\ WriterIdle
    /\ file \in GenFiles /\ call = NoCall /\ gens = <<>> /\ reads = <<>>
ReadRootChunked ==
    \E columns \in GenColumnArgs, chunksize \in 0..MaxChunk :
        read_root("", columns, NoArg, chunksize, MaxGens)
NextGen == ReadRootChunked \/ GenNext
SpecGen == InitGen /\ [][NextGen]_vars

\* calls of to_root on one destination
ToRoot ==
    \E df \in Frames, tree_key \in WriteKeys, mode \in Modes :
        to_root(df, tree_key, mode)
InitWrite == HelpersIdle /\ WriterIdle /\ ReaderIdle
SpecWrite == InitWrite /\ [][ToRoot]_vars

-----------------------------------------------------------------------------
(* Properties of get_matching_variables *)

\* the positions of the patterns that match no branch
Unmatched(branches, patterns) ==
    {i \in 1..Len(patterns) :
        \A k \in 1..Len(branches) : ~ fnmatch(branches[k], patterns[i])}

\* the first position of a pattern matching column c, and the first
\* position of c among the branches
FirstPattern(c, patterns) ==
    CHOOSE i \in 1..Len(patterns) :
        fnmatch(c, patterns[i]) /\ \A j \in 1..(i - 1) : ~ fnmatch(c, patterns[j])
FirstBranch(c, branches) ==
    CHOOSE k \in 1..Len(branches) :
        branches[k] = c /\ \A j \in 1..(k - 1) : branches[j] # c

\* sel lists, once each and in first-match order, the branches that some
\* pattern matches
IsFirstMatchSelection(sel, branches, patterns) ==
    /\ \A i, j \in 1..Len(sel) : i # j => sel[i] # sel[j]
    /\ Range(sel) = {b \in Range(branches) :
                        \E i \in 1..Len(patterns) : fnmatch(b, patterns[i])}
    /\ \A i, j \in 1..Len(sel) :
         i < j =>
           \/ FirstPattern(sel[i], patterns) < FirstPattern(sel[j], patterns)
           \/ /\ FirstPattern(sel[i], patterns) = FirstPattern(sel[j], patterns)
              /\ FirstBranch(sel[i], branches) < FirstBranch(sel[j], branches)

\* C3: whenever get_matching_variables returns, the selection holds no
\* column twice, holds exactly the branches matched by some pattern, and is
\* in first-match order (patterns in list order, then branches in branch
\* order); a pattern given twice selects what the pattern given once does.
C3_FirstMatchSelection ==
    (sel_out.called /\ ~ sel_out.raised) =>
        /\ IsFirstMatchSelection(sel_out.selected, sel_in.branches, sel_in.patterns)
        /\ (Len(sel_in.patterns) = 2 /\ sel_in.patterns[1] = sel_in.patterns[2]) =>
             sel_out.selected =
               get_matching_variables(sel_in.branches, <<sel_in.patterns[1]>>,
                                      sel_in.fail).selected

\* C3 witness: a call has returned a selection of two columns that both
\* patterns match, in an order that is not the branch order
C3_Witness ==
    /\ sel_out.called /\ ~ sel_out.raised
    /\ sel_in.branches = <<B, AC, AB>>
    /\ sel_in.patterns = <<(<<"*", "C">>), <<"A", "*">> >>
    /\ sel_out.selected = <<AC, AB>>

\* C4: with fail=True the call raises for the first pattern, in list order,
\* that matches no branch, and returns nothing; with fail=False it never
\* raises and returns the selection of the list without its unmatched
\* patterns; a pattern whose branches were all selected before is matched
\* and does not raise.
C4_UnmatchedPattern ==
    sel_out.called =>
      LET un == Unmatched(sel_in.branches, sel_in.patterns)
          kept == SelectSeq(sel_in.patterns,
                      LAMBDA q : \E k \in 1..Len(sel_in.branches) :
                                    fnmatch(sel_in.branches[k], q))
      IN  /\ (un # {} /\ sel_in.fail) =>
               /\ sel_out.raised
               /\ sel_out.selected = <<>>
               /\ \E i \in un : /\ \A j \in un : i <= j
                                /\ sel_out.pattern = sel_in.patterns[i]
          /\ (un = {} \/ ~ sel_in.fail) =>
               /\ ~ sel_out.raised
               /\ IsFirstMatchSelection(sel_out.selected, sel_in.branches, kept)
               /\ sel_out.selected =
                    get_matching_variables(sel_in.branches, kept, FALSE).selected

\* C4 witness: a call with fail=True has raised for its second pattern,
\* after a first pattern that matched
C4_Witness ==
    /\ sel_out.called /\ sel_out.raised /\ sel_in.fail
    /\ Len(sel_in.patterns) = 2
    /\ sel_out.pattern = sel_in.patterns[2]
    /\ 1 \notin Unmatched(sel_in.branches, sel_in.patterns)

\* a call with fail=True has returned although its second pattern added
\* no column: all it matches was selected by the first
C4_AlreadySelected ==
    /\ sel_out.called /\ ~ sel_out.raised /\ sel_in.fail
    /\ sel_in.patterns = <<(<<"A", "*">>), AB>>
    /\ sel_out.selected = <<AB>>

-----------------------------------------------------------------------------
(* Properties of expand_braces *)

\* C5: for an input of sequential brace groups of comma-separated
\* alternatives and literal text, expand_braces returns exactly the strings
\* that choose one alternative per group.
C5_CartesianProduct == expanded # {} => expanded = Product(segs)

\* the group '{,}' of two empty alternatives
EmptyPair == [group |-> TRUE, alts |-> <<(<<>>), <<>> >>]

\* the same, for the inputs none of whose groups is '{,}'
ProductBesidesEmptyPair ==
    (expanded # {} /\ EmptyPair \notin Range(segs)) => expanded = Product(segs)

\* an input with the same group twice has been expanded
RepeatedGroupExpanded ==
    /\ Len(segs) = 3 /\ segs[1].group /\ segs[1] = segs[3] /\ ~ segs[2].group
    /\ segs[1].alts = <<(<<"A">>), <<"B">> >>
    /\ Cardinality(expanded) = 4

-----------------------------------------------------------------------------
(* Properties of read_root: the columns read *)

\* the branches that a glob of the argument matches
GlobResolved(branches, arg) ==
    {b \in Range(branches) :
        \E i \in 1..Len(AsList(arg)) : fnmatch(b, AsList(arg)[i])}

\* the branches that a brace-expanded alternative of the argument matches
BraceResolved(branches, arg) ==
    {b \in Range(branches) :
        \E i \in 1..Len(AsList(arg)) :
            \E e \in expand_braces(AsList(arg)[i]) : fnmatch(b, e)}

\* no tree key is given and the source does not hold exactly one tree
TreeAmbiguous == call.tree_key = "" /\ Len(file.trees) # 1

\* an include pattern, brace-expanded, matches no branch
IncludeUnmatched ==
    /\ Truthy(call.columns)
    /\ \E i \in 1..Len(AsList(call.columns)) :
         \E e \in expand_braces(AsList(call.columns)[i]) :
            \A b \in Range(file.branches) : ~ fnmatch(b, e)

Called == call.seq > 0
Returned == call.returned \in {"frame", "generator"}

\* C1: when the source has a branch named index and read_root returns,
\* the selection it reads (at once, or chunk by chunk) contains index,
\* whatever columns and ignore are.
C1_IndexAlwaysRead ==
    (Called /\ INDEX \in Range(file.branches)) =>
        /\ Returned => INDEX \in Range(call.all_vars)
        /\ \A k \in 1..Len(reads) : INDEX \in Range(reads[k].branches)
        /\ \A g \in 1..Len(gens) : INDEX \in Range(gens[g].all_vars)

\* C1 witness: include patterns that do not mention index and an ignore
\* list were given, the call returned a table, and its read named index
C1_Witness ==
    /\ Called /\ call.returned = "frame"
    /\ call.columns = ListArg(<<B, <<"A", "*">> >>)
    /\ call.ignore = StrArg(AB)
    /\ Len(reads) = 1 /\ reads[1].branches = <<B, AC, INDEX>>

\* C2 as stated: whenever the ignore patterns match the branch index, the
\* call fails with the reserved-column error and reads no rows.
C2_ReservedColumnError ==
    (Called /\ Truthy(call.ignore)
       /\ INDEX \in GlobResolved(file.branches, call.ignore)) =>
        call.err = "ReservedColumn" /\ reads = <<>> /\ gens = <<>>

\* C2 amended: whenever the ignore patterns match the branch index, the
\* call raises a ValueError and reads no rows; the error is the
\* reserved-column error unless the tree key is ambiguous or an include
\* pattern matches no branch, which are raised before it.
C2_FailsBeforeReading ==
    (Called /\ Truthy(call.ignore)
       /\ INDEX \in GlobResolved(file.branches, call.ignore)) =>
        /\ call.returned = "raise" /\ reads = <<>> /\ gens = <<>>
        /\ call.err = IF TreeAmbiguous THEN "AmbiguousTree"
                      ELSE IF IncludeUnmatched THEN "PatternNotFound"
                      ELSE "ReservedColumn"

\* C2 witness: a glob that matches index among the ignore patterns made
\* the call fail with the reserved-column error
C2_Witness ==
    /\ Called /\ call.err = "ReservedColumn"
    /\ call.ignore = ListArg(<<(<<"i", "n", "d", "*">>)>>)
    /\ Truthy(call.columns)
    /\ reads = <<>>

\* whether a pattern holds a brace group
HasBraces(pat) == \E k \in 1..Len(pat) : pat[k] = LBRACE

\* C6: after a call that returned, no branch that matches a brace-expanded
\* alternative of an ignore pattern with a brace group is in the selection
\* read.
C6_IgnoreBraces ==
    (Called /\ Returned /\ Truthy(call.ignore)) =>
        \A i \in 1..Len(AsList(call.ignore)) :
            HasBraces(AsList(call.ignore)[i]) =>
                \A b \in BraceResolved(file.branches, ListArg(<<AsList(call.ignore)[i]>>)) :
                    b \notin Range(call.all_vars)

\* C9: a call whose ignore patterns match a set R of branches without
\* index returns (tree key and include patterns permitting), and reads the
\* include selection without the members of R, in the same relative order.
C9_IgnoreRemoves ==
    (Called /\ Truthy(call.ignore) /\ ~ TreeAmbiguous /\ ~ IncludeUnmatched
       /\ INDEX \notin GlobResolved(file.branches, call.ignore)) =>
        /\ Returned
        /\ call.all_vars =
             SelectSeq(call.included,
                LAMBDA v : v \notin GlobResolved(file.branches, call.ignore))

\* the same, for the calls whose R is within the include selection
IgnoreRemovesSelected ==
    (Called /\ Truthy(call.ignore) /\ ~ TreeAmbiguous /\ ~ IncludeUnmatched
       /\ INDEX \notin GlobResolved(file.branches, call.ignore)
       /\ call.err # "RemoveMissing") =>
        /\ Returned
        /\ call.all_vars =
             SelectSeq(call.included,
                LAMBDA v : v \notin GlobResolved(file.branches, call.ignore))

\* list.remove raises exactly for an ignored branch outside the selection
RemoveMissingOnlyOutside ==
    (Called /\ call.err = "RemoveMissing") =>
        \E b \in GlobResolved(file.branches, call.ignore) :
            b \notin Range(call.included)

-----------------------------------------------------------------------------
(* Properties of read_root: the chunks *)

\* ceil(n / c): the least m with m * c >= n
CeilDiv(n, c) == CHOOSE m \in 0..n : m * c >= n /\ (m = 0 \/ (m - 1) * c < n)

\* rows are the row numbers lo..(hi - 1)
IsRowRange(rows, lo, hi) ==
    /\ Len(rows) = hi - lo
    /\ \A i \in 1..Len(rows) : rows[i] = lo + i - 1

\* the rows of a list of tables, one table after the other
AllRows(frames) == Concat([k \in 1..Len(frames) |-> frames[k].rows])

\* the table of the unchunked read of a selection
WholeFrame(all_vars) ==
    convert_to_dataframe(root2array(file, all_vars, FALSE, 0, 0))

ReadsIn(log, g) == SelectSeq(log, LAMBDA r : r.gen = g)

\* every generator has read the chunks 0, 1, ... in order, one for each
\* request of its consumer while chunks remained, and no other
ReadsFollowPulls(gs, log) ==
    \A g \in 1..Len(gs) :
        LET rs == ReadsIn(log, g)
            c == gs[g].chunksize
        IN  /\ Len(rs) = Min(gs[g].pulls, CeilDiv(gs[g].n_entries, c))
            /\ Len(rs) = Len(gs[g].yielded)
            /\ \A k \in 1..Len(rs) :
                 rs[k].ranged /\ rs[k].start = (k - 1) * c /\ rs[k].stop = k * c

\* C10: a chunked call of read_root reads no rows and returns a new
\* generator at chunk 0, leaving the others as they are; a request to a
\* generator issues at most one read, the read of its next chunk, and none
\* for any other generator; so a generator asked for m tables has read the
\* chunks 0 .. m-1 only.
C10_Step ==
    /\ ReadsFollowPulls(gens', reads')
    /\ call'.seq # call.seq /\ call'.returned = "generator" =>
         /\ reads' = reads
         /\ Len(gens') = Len(gens) + 1
         /\ SubSeq(gens', 1, Len(gens)) = gens
         /\ gens'[Len(gens')].pulls = 0 /\ gens'[Len(gens')].chunk = 0
         /\ gens'[Len(gens')].yielded = <<>>
    /\ call'.seq = call.seq =>
         \E g \in 1..Len(gens) :
            /\ gens'[g].pulls = gens[g].pulls + 1
            /\ \A h \in 1..Len(gens) : h # g => gens'[h] = gens[h]
            /\ \/ reads' = reads
               \/ /\ Len(reads') = Len(reads) + 1
                  /\ SubSeq(reads', 1, Len(reads)) = reads
                  /\ reads'[Len(reads')].gen = g
                  /\ reads'[Len(reads')].start = gens[g].chunk * gens[g].chunksize
C10_LazyChunks == [][C10_Step]_vars

\* C10 witness: of two generators over two rows in chunks of one, the
\* first was asked for two tables, and the second, created later and asked
\* for one table and no more, has read its chunk 0 only
C10_Witness ==
    /\ Len(gens) = 2 /\ file.n_entries = 2
    /\ gens[1].chunksize = 1 /\ gens[2].chunksize = 1
    /\ gens[1].pulls = 2 /\ gens[2].pulls = 1 /\ ~ gens[2].done
    /\ Len(reads) = 3 /\ reads[2].gen = 1 /\ reads[2].start = 1
    /\ reads[3].gen = 2 /\ reads[3].start = 0

-----------------------------------------------------------------------------
(* Properties of to_root *)

\* C8: to_root calls the writer once, with open mode recreate for mode 'w'
\* and update for mode 'a'; for any other mode it raises the invalid-mode
\* ValueError, calls no writer and leaves the destination as it was.
C8_Step ==
    wcall'.seq # wcall.seq =>
        IF wcall'.mode \in {"w", "a"}
        THEN /\ wcall'.err = ""
             /\ Len(writes') = Len(writes) + 1
             /\ SubSeq(writes', 1, Len(writes)) = writes
             /\ writes'[Len(writes')].tree_key = wcall'.tree_key
             /\ writes'[Len(writes')].mode =
                  (IF wcall'.mode = "w" THEN "recreate" ELSE "update")
        ELSE /\ wcall'.err = "InvalidMode"
             /\ writes' = writes
             /\ dest' = dest
C8_WriterModes == [][C8_Step]_vars

\* C8 witness: after a write, a call with a mode that is neither 'w' nor
\* 'a' has raised, and the destination still holds what was written
C8_Witness ==
    /\ wcall.err = "InvalidMode" /\ wcall.mode = "r"
    /\ Len(writes) = 1 /\ writes[1].mode = "recreate"
    /\ dest["default"] # <<>>

=============================================================================
